---- MODULE Spec2Model ----
(***************************************************************************)
(* Model of src/ui_schema.py: a Streamlit script.  The script is re-run     *)
(* from top to bottom after every user interaction; st.session_state and    *)
(* the widget values survive between runs.  One action of the model is one  *)
(* user interaction: the widget value change, the on_change callback, the   *)
(* whole script run it triggers and, after st.rerun(), the second run.      *)
(*                                                                         *)
(* Widgets follow the framework's rules the script relies on: a checkbox    *)
(* is identified by its key and its parameters, `value` included, so a      *)
(* checkbox rendered with another `value` is a new widget holding that      *)
(* default; a component such as st_ace is identified by its key alone;      *)
(* widget values of a run that stops early (exception, st.rerun) are kept.  *)
(***************************************************************************)
EXTENDS Integers, Sequences, FiniteSets, TLC

\* ------------------------------------------------------------- constants
\* lines 82-84: at most 10 pages are kept
PageLimit == 10

\* ---------------------------------------------------------------- bounds
\* small documents have 1..MaxSmallDoc pages
MaxSmallDoc == 2
\* the user clicks the checkboxes of pages 0..MaxClickIdx
MaxClickIdx == 1

\* page counts the renderer may return: small documents, and documents at
\* and just over the page limit
RenderCounts == (1..MaxSmallDoc) \cup {PageLimit, PageLimit + 1}
RenderError == 0 - 1
RenderOutcomes == RenderCounts \cup {RenderError}

\* uploaded_file.name: the user uploads revisions of one document
FileNames == {"document.pdf"}

\* identities of uploaded files; an upload gets one that no file or page
\* image the session still holds carries
FileIds == {1, 2, 3}

PLACEHOLDER_SCHEMA == "placeholder"
GeneratedTexts == {"generated"}
EditTexts == {"edited", "malformed"}
GenerateOutcomes == GeneratedTexts \cup {"GenerateError"}
ExtractedValues == {"data1", "data2"}
ExtractOutcomes == ExtractedValues \cup {"ExtractionError"}

\* ------------------------------------------------------ python helpers
None == <<>>
Some(x) == <<x>>
Get(o) == o[1]

In(x, list) == \E k \in 1..Len(list) : list[k] = x

\* set(list)
SetOf(list) == {list[k] : k \in 1..Len(list)}

\* list.remove(x): drops the first occurrence of x
FirstAt(x, list) == CHOOSE k \in 1..Len(list) :
                       list[k] = x /\ \A j \in 1..(k - 1) : list[j] # x
Remove(list, x) ==
    LET k == FirstAt(x, list)
    IN  SubSeq(list, 1, k - 1) \o SubSeq(list, k + 1, Len(list))

\* list(range(n))
Range(n) == [k \in 1..n |-> k - 1]

\* pages[:10]
Truncate(rendered) == SubSeq(rendered, 1, PageLimit)

\* toggle_page(idx) applied to the list selected_pages
toggle_page(sel, idx) ==
    IF In(idx, sel) THEN Remove(sel, idx) ELSE Append(sel, idx)

\* get_images_cached(tmp_path): the n page images of the file, in order
Render(file, n) == [k \in 1..n |-> <<file.id, k - 1>>]

\* get_schema_class(schema_code) raises on text that is no schema definition
Parses(text) == text # "malformed"

\* [st.session_state.pages[i] for i in st.session_state.selected_pages]
IndexOk(pgs, sel) == \A k \in 1..Len(sel) : sel[k] < Len(pgs)
SelectedImages(pgs, sel) == [k \in 1..Len(sel) |-> pgs[sel[k] + 1]]

\* ------------------------------------------------------------- widgets
\* A page checkbox key holds up to two widgets, one per `value` it was
\* rendered with: F and T are their values ("-" when the widget does not
\* exist), shown is the one on screen.
BoxIdx == 0..PageLimit
NoBox == [shown |-> "-", F |-> "-", T |-> "-"]
BoolStr(b) == IF b THEN "T" ELSE "F"

\* st.checkbox(value=v, key=page_idx): the value of the widget with that
\* default, which is v itself when the widget is new
CheckboxValue(b, v) ==
    LET slot == IF v THEN b.T ELSE b.F
    IN  IF slot = "-" THEN v ELSE slot = "T"
CheckboxRender(b, v) ==
    LET r == BoolStr(CheckboxValue(b, v))
    IN  IF v THEN [b EXCEPT !.shown = "T", !.T = r]
             ELSE [b EXCEPT !.shown = "F", !.F = r]

\* the user clicks the checkbox on screen: its value flips
CheckboxClick(b) ==
    IF b.shown = "T"
    THEN [b EXCEPT !.T = IF b.T = "T" THEN "F" ELSE "T"]
    ELSE [b EXCEPT !.F = IF b.F = "T" THEN "F" ELSE "T"]

\* end of a complete run: widgets that were not rendered are forgotten
CheckboxKeepShown(b) ==
    IF b.shown = "T" THEN [b EXCEPT !.F = "-"]
    ELSE IF b.shown = "F" THEN [b EXCEPT !.T = "-"]
    ELSE NoBox

VARIABLES
    uploaded_file,    \* st.session_state.uploaded_file: None or Some(file)
    pages,            \* st.session_state.pages: None or Some(list of images)
    schema,           \* st.session_state.schema
    schemas,          \* st.session_state.schemas: "unset" or "None"
    extracted_data,   \* st.session_state.extracted_data: None or Some(data)
    selected_pages,   \* st.session_state.selected_pages: list of indices
    uploader,         \* value of st.file_uploader: None or Some(file)
    select_all,       \* value of the "select_all" checkbox
    box,              \* the page_<idx> checkboxes
    editor,           \* text the schema_editor component last sent: None or Some(text)
    tmp,              \* names of the files that exist under tmp/
    screen,           \* what the last run rendered: "upload", "select", "full"
    warning,          \* page count reported by st.warning in the last run, 0 if none
    download,         \* the download button was rendered by the last run
    event,            \* the interaction handled last
    outcome,          \* how its run ended: "ok" or the error that stopped it
    call,             \* the collaborator call of the last interaction
    rendered_count,   \* pages get_images_cached returned in the last run, 0 if not called
    had_data,         \* extracted_data was present before the last interaction
    toggled           \* under SpecLogged: the page checkbox clicked last, how many
                      \* times in a row, and the selection before the first click

vars == <<uploaded_file, pages, schema, schemas, extracted_data, selected_pages,
          uploader, select_all, box, editor, tmp, screen, warning,
          download, event, outcome, call, rendered_count, had_data, toggled>>

NoCall == [fn |-> "none", images |-> <<>>, schema |-> "", result |-> ""]

NoToggle == [idx |-> 0 - 1, n |-> 0, before |-> {}]

\* the record of a click on the checkbox of page idx
ToggleLog(idx) ==
    IF event = "ToggleSelection" /\ toggled.idx = idx /\ toggled.n = 1
    THEN [toggled EXCEPT !.n = 2]
    ELSE [idx |-> idx, n |-> 1, before |-> SetOf(selected_pages)]

\* the session and widget state as one value, as a run of the script sees it
Cur ==
    [uploaded_file |-> uploaded_file, pages |-> pages, schema |-> schema,
     schemas |-> schemas, extracted_data |-> extracted_data,
     selected_pages |-> selected_pages, uploader |-> uploader,
     select_all |-> select_all, box |-> box, editor |-> editor, tmp |-> tmp,
     screen |-> screen, warning |-> warning, download |-> download,
     outcome |-> outcome, call |-> call, rendered_count |-> rendered_count,
     rerun |-> FALSE]

\* variant: every run with a file in the uploader ingests it
IngestDue_Always(s) == s.uploader # None

\* line 70: the condition under which a run ingests the uploader's file
IngestDue(s) == s.uploader # None /\ s.uploaded_file # s.uploader

\* what get_images_cached may do in a run started from s; it is called only
\* when the run ingests
RenderChoices(s) == IF IngestDue(s) THEN RenderOutcomes ELSE {RenderError}

\* ------------------------------------------------- the script, block by block
\* variant: the list is stored as rendered
LimitPages_NoTruncation(rendered) == rendered

\* lines 81-84: keep the first 10 pages
LimitPages(rendered) ==
    IF Len(rendered) > PageLimit THEN Truncate(rendered) ELSE rendered

\* lines 82-83: st.warning reports len(pages) of the untruncated list
WarningFor(rendered) ==
    IF Len(rendered) > PageLimit THEN Len(rendered) ELSE 0

\* variant: extracted_data survives the upload
IngestStore_KeepData(s, pgs) ==
    [s EXCEPT !.pages = Some(pgs), !.schemas = "None"]

\* variant: the upload resets the schema text as well
IngestStore_ResetSchema(s, pgs) ==
    [s EXCEPT !.pages = Some(pgs), !.schema = PLACEHOLDER_SCHEMA,
              !.schemas = "None", !.extracted_data = None]

\* lines 86-88
IngestStore(s, pgs) ==
    [s EXCEPT !.pages = Some(pgs), !.schemas = "None", !.extracted_data = None]

\* lines 70-88; r is what get_images_cached does: a page count, or RenderError
IngestBlock(s, r) ==
    IF IngestDue(s)
    THEN LET f == Get(s.uploader)
             written == [s EXCEPT !.uploaded_file = s.uploader,
                                  !.tmp = @ \cup {f.name}]
         IN  IF r = RenderError
             THEN [written EXCEPT !.outcome = "RenderError"]
             ELSE LET rendered == Render(f, r)
                      unlinked == [written EXCEPT !.tmp = @ \ {f.name},
                                                  !.warning = WarningFor(rendered),
                                                  !.rendered_count = r]
                  IN  IngestStore(unlinked, LimitPages(rendered))
    ELSE s

\* variant: unchecking "select all" always clears the selection
SelectAllBlock_AlwaysClear(s) ==
    IF s.select_all
    THEN [s EXCEPT !.selected_pages = Range(Len(Get(s.pages)))]
    ELSE [s EXCEPT !.selected_pages = <<>>]

\* variant: "select all" misses the last page
SelectAllBlock_OffByOne(s) ==
    LET n == Len(Get(s.pages))
    IN  IF s.select_all
        THEN [s EXCEPT !.selected_pages = Range(n - 1)]
        ELSE IF Len(s.selected_pages) = n
             THEN [s EXCEPT !.selected_pages = <<>>]
             ELSE s

\* lines 96-101
SelectAllBlock(s) ==
    LET n == Len(Get(s.pages))
    IN  IF s.select_all
        THEN [s EXCEPT !.selected_pages = Range(n)]
        ELSE IF Len(s.selected_pages) = n
             THEN [s EXCEPT !.selected_pages = <<>>]
             ELSE s

\* variant: a checked box appends its index without looking for it
PageCheckbox_AppendAlways(sel, bx, idx) ==
    LET v == In(idx, sel)
        checked == CheckboxValue(bx[idx], v)
    IN  [sel |-> IF checked
                 THEN Append(sel, idx)
                 ELSE (IF In(idx, sel) THEN Remove(sel, idx) ELSE sel),
         box |-> [bx EXCEPT ![idx] = CheckboxRender(@, v)]]

\* lines 109-119: one iteration of the loop over the pages
PageCheckbox(sel, bx, idx) ==
    LET v == In(idx, sel)
        checked == CheckboxValue(bx[idx], v)
    IN  [sel |-> IF checked
                 THEN (IF ~In(idx, sel) THEN Append(sel, idx) ELSE sel)
                 ELSE (IF In(idx, sel) THEN Remove(sel, idx) ELSE sel),
         box |-> [bx EXCEPT ![idx] = CheckboxRender(@, v)]]

\* lines 106-119
RECURSIVE PageLoop(_, _, _, _)
PageLoop(sel, bx, idx, n) ==
    IF idx >= n THEN [sel |-> sel, box |-> bx]
    ELSE LET p == PageCheckbox(sel, bx, idx)
         IN  PageLoop(p.sel, p.box, idx + 1, n)

PageSection(s) ==
    LET p == PageLoop(s.selected_pages, s.box, 0, Len(Get(s.pages)))
    IN  [s EXCEPT !.selected_pages = p.sel, !.box = p.box]

\* variant: a new schema drops the data extracted with the old one
GenerateBlock_DropData(s, clicked, g) ==
    IF Len(s.selected_pages) > 0 /\ clicked = "GenerateSchema"
    THEN IF ~IndexOk(Get(s.pages), s.selected_pages)
         THEN [s EXCEPT !.outcome = "IndexError"]
         ELSE IF g = "GenerateError"
         THEN [s EXCEPT !.outcome = "GenerateError"]
         ELSE [s EXCEPT !.schema = g, !.extracted_data = None, !.rerun = TRUE]
    ELSE s

\* lines 129-134; g is what generate_schema does: a schema text, or an error
GenerateBlock(s, clicked, g) ==
    IF Len(s.selected_pages) > 0 /\ clicked = "GenerateSchema"
    THEN IF ~IndexOk(Get(s.pages), s.selected_pages)
         THEN [s EXCEPT !.outcome = "IndexError"]
         ELSE LET imgs == SelectedImages(Get(s.pages), s.selected_pages)
                  called == [s EXCEPT !.call = [fn |-> "generate_schema",
                                                images |-> imgs, schema |-> "",
                                                result |-> g]]
              IN  IF g = "GenerateError"
                  THEN [called EXCEPT !.outcome = "GenerateError"]
                  ELSE [called EXCEPT !.schema = g, !.rerun = TRUE]
    ELSE s

\* line 137: st_ace returns the text the editor last sent, and the `value`
\* argument while the editor has sent none
st_ace(value, ed) == IF ed = None THEN value ELSE Get(ed)

\* lines 137-146
EditorBlock(s) ==
    LET edited_schema == st_ace(s.schema, s.editor)
    IN  [s EXCEPT !.schema = IF edited_schema # s.schema THEN edited_schema ELSE @]

\* variant: the old result is dropped before the schema is parsed
ExtractBlock_ClearFirst(s, clicked, x) ==
    IF clicked = "ExtractData"
    THEN LET c == [s EXCEPT !.extracted_data = None]
         IN  IF ~Parses(c.schema)
             THEN [c EXCEPT !.outcome = "SchemaParseError"]
             ELSE IF ~IndexOk(Get(c.pages), c.selected_pages)
             THEN [c EXCEPT !.outcome = "IndexError"]
             ELSE IF x = "ExtractionError"
             THEN [c EXCEPT !.outcome = "ExtractionError"]
             ELSE [c EXCEPT !.extracted_data = Some(x)]
    ELSE s

\* lines 149-161; x is what extract_data_with_schema does
ExtractBlock(s, clicked, x) ==
    IF clicked = "ExtractData"
    THEN IF ~Parses(s.schema)
         THEN [s EXCEPT !.outcome = "SchemaParseError"]
         ELSE IF ~IndexOk(Get(s.pages), s.selected_pages)
         THEN [s EXCEPT !.outcome = "IndexError"]
         ELSE LET imgs == SelectedImages(Get(s.pages), s.selected_pages)
                  called == [s EXCEPT !.call = [fn |-> "extract_data_with_schema",
                                                images |-> imgs,
                                                schema |-> s.schema,
                                                result |-> x]]
              IN  IF x = "ExtractionError"
                  THEN [called EXCEPT !.outcome = "ExtractionError"]
                  ELSE [called EXCEPT !.extracted_data = Some(x)]
    ELSE s

\* lines 164-172
DownloadBlock(s) == [s EXCEPT !.download = (s.extracted_data # None)]

\* a run that reached the end of the script: the widgets it did not render
\* lose their values
EndRun(s) ==
    IF s.screen = "upload"
    THEN [s EXCEPT !.select_all = FALSE, !.editor = None,
                   !.box = [i \in BoxIdx |-> NoBox]]
    ELSE LET n == Len(Get(s.pages))
         IN  [s EXCEPT !.box = [i \in BoxIdx |->
                          IF i < n THEN CheckboxKeepShown(s.box[i]) ELSE NoBox]]

\* one run of the script, lines 35-172; clicked is the button pressed, if any
RunOnce(s0, clicked, r, g, x) ==
    LET s == [s0 EXCEPT !.warning = 0, !.download = FALSE, !.outcome = "ok",
                        !.rendered_count = 0, !.rerun = FALSE]
        a == IngestBlock(s, r)
    IN  IF a.outcome # "ok" THEN [a EXCEPT !.screen = "upload"]
        ELSE IF a.pages = None THEN EndRun([a EXCEPT !.screen = "upload"])
        ELSE LET b == PageSection(SelectAllBlock(a))
                 c == GenerateBlock(b, clicked, g)
             IN  IF c.outcome # "ok" THEN [c EXCEPT !.screen = "select"]
                 ELSE IF c.rerun THEN c
                 ELSE LET d == EditorBlock(c)
                          e == ExtractBlock(d, clicked, x)
                      IN  IF e.outcome # "ok" THEN [e EXCEPT !.screen = "full"]
                          ELSE EndRun(DownloadBlock([e EXCEPT !.screen = "full"]))

\* the run an interaction triggers, and the run st.rerun() asks for (line 134)
Script(s0, clicked, r, g, x) ==
    LET a == RunOnce(s0, clicked, r, g, x)
    IN  IF a.rerun THEN RunOnce(a, "none", r, g, x) ELSE a

Commit(s, ev) ==
    /\ uploaded_file' = s.uploaded_file
    /\ pages' = s.pages
    /\ schema' = s.schema
    /\ schemas' = s.schemas
    /\ extracted_data' = s.extracted_data
    /\ selected_pages' = s.selected_pages
    /\ uploader' = s.uploader
    /\ select_all' = s.select_all
    /\ box' = s.box
    /\ editor' = s.editor
    /\ tmp' = s.tmp
    /\ screen' = s.screen
    /\ warning' = s.warning
    /\ download' = s.download
    /\ outcome' = s.outcome
    /\ call' = s.call
    /\ event' = ev
    /\ rendered_count' = s.rendered_count
    /\ had_data' = (extracted_data # None)

\* ------------------------------------------------------------------ Init
\* lines 35-50, before the first file is uploaded
Init ==
    /\ uploaded_file = None
    /\ pages = None
    /\ schema = PLACEHOLDER_SCHEMA
    /\ schemas = "unset"
    /\ extracted_data = None
    /\ selected_pages = <<>>
    /\ uploader = None
    /\ select_all = FALSE
    /\ box = [i \in BoxIdx |-> NoBox]
    /\ editor = None
    /\ tmp = {}
    /\ screen = "upload"
    /\ warning = 0
    /\ download = FALSE
    /\ event = "start"
    /\ outcome = "ok"
    /\ call = NoCall
    /\ rendered_count = 0
    /\ had_data = FALSE
    /\ toggled = NoToggle

\* --------------------------------------------------------------- actions
\* the file_id of a new UploadedFile differs from every earlier one
HeldIds ==
    {o[1].id : o \in {uploaded_file, uploader} \ {None}}
        \cup (IF pages = None THEN {}
              ELSE {Get(pages)[k][1] : k \in 1..Len(Get(pages))})
FreshId == CHOOSE i \in FileIds \ HeldIds : \A j \in FileIds \ HeldIds : i <= j

\* the user uploads a file: line 68 returns it and lines 70-88 ingest it
Ingest ==
    \E name \in FileNames, r \in RenderOutcomes :
        /\ LET f == [id |-> FreshId, name |-> name]
               s0 == [Cur EXCEPT !.uploader = Some(f), !.call = NoCall]
           IN  Commit(Script(s0, "none", r, "generated", "data1"), "Ingest")

\* the user removes the file from the uploader: line 68 returns None
RemoveFile ==
    /\ uploader # None
    /\ LET s0 == [Cur EXCEPT !.uploader = None, !.call = NoCall]
       IN  \E r \in RenderChoices(s0) :
               Commit(Script(s0, "none", r, "generated", "data1"), "RemoveFile")

\* the user clicks the checkbox of page idx: on_change runs toggle_page(idx)
\* (line 113), then the script runs
ToggleSelectionAt(idx) ==
    /\ screen # "upload"
    /\ idx < Len(Get(pages))
    /\ box[idx].shown # "-"
    /\ LET s0 == [Cur EXCEPT !.box[idx] = CheckboxClick(@),
                             !.selected_pages = toggle_page(@, idx),
                             !.call = NoCall]
       IN  \E r \in RenderChoices(s0) :
               Commit(Script(s0, "none", r, "generated", "data1"),
                      "ToggleSelection")

ToggleSelection == \E idx \in 0..MaxClickIdx : ToggleSelectionAt(idx)

\* the user clicks "Select all pages" (line 96)
SelectAll ==
    /\ screen # "upload"
    /\ LET s0 == [Cur EXCEPT !.select_all = ~select_all, !.call = NoCall]
       IN  \E r \in RenderChoices(s0) :
               Commit(Script(s0, "none", r, "generated", "data1"), "SelectAll")

\* the user presses "Generate Schema", rendered when n_selected > 0 (line 129)
GenerateSchema ==
    \E g \in GenerateOutcomes :
        /\ screen # "upload"
        /\ Len(selected_pages) > 0
        /\ LET s0 == [Cur EXCEPT !.call = NoCall]
           IN  \E r \in RenderChoices(s0) :
                   Commit(Script(s0, "GenerateSchema", r, g, "data1"),
                          "GenerateSchema")

\* the user applies a text in the schema editor (line 137)
EditSchema ==
    \E text \in EditTexts :
        /\ screen = "full"
        /\ LET s0 == [Cur EXCEPT !.editor = Some(text), !.call = NoCall]
           IN  \E r \in RenderChoices(s0) :
                   Commit(Script(s0, "none", r, "generated", "data1"), "EditSchema")

\* variant: the button is never disabled
ExtractData_NeverDisabled ==
    \E x \in ExtractOutcomes :
        /\ screen = "full"
        /\ LET s0 == [Cur EXCEPT !.call = NoCall]
           IN  \E r \in RenderChoices(s0) :
                   Commit(Script(s0, "ExtractData", r, "generated", x), "ExtractData")

\* the user presses "Extract Data", disabled when n_selected == 0 (line 149)
ExtractData ==
    \E x \in ExtractOutcomes :
        /\ screen = "full"
        /\ Len(selected_pages) > 0
        /\ LET s0 == [Cur EXCEPT !.call = NoCall]
           IN  \E r \in RenderChoices(s0) :
                   Commit(Script(s0, "ExtractData", r, "generated", x), "ExtractData")

Next ==
    \/ Ingest /\ UNCHANGED toggled
    \/ RemoveFile /\ UNCHANGED toggled
    \/ ToggleSelection /\ UNCHANGED toggled
    \/ SelectAll /\ UNCHANGED toggled
    \/ GenerateSchema /\ UNCHANGED toggled
    \/ EditSchema /\ UNCHANGED toggled
    \/ ExtractData /\ UNCHANGED toggled

Spec == Init /\ [][Next]_vars

\* the same interactions, with the clicks on the page checkboxes recorded
NextLogged ==
    \/ Ingest /\ toggled' = NoToggle
    \/ RemoveFile /\ toggled' = NoToggle
    \/ \E idx \in 0..MaxClickIdx :
           ToggleSelectionAt(idx) /\ toggled' = ToggleLog(idx)
    \/ SelectAll /\ toggled' = NoToggle
    \/ GenerateSchema /\ toggled' = NoToggle
    \/ EditSchema /\ toggled' = NoToggle
    \/ ExtractData /\ toggled' = NoToggle

SpecLogged == Init /\ [][NextLogged]_vars

\* ---------------------------------------------------------------- claims
NPages == Len(Get(pages))
AllIndices == 0..(NPages - 1)

\* C1: in every reachable state, every element of selectedPages is a valid
\* index into pages when pages is present, and selectedPages is empty when
\* pages is absent.
C1_SelectedIndicesValid ==
    IF pages = None THEN selected_pages = <<>>
    ELSE SetOf(selected_pages) \subseteq AllIndices

\* C2: a successful Ingest of a document that renders to n <= 10 pages leaves
\* pages with exactly n entries and selectedPages empty.
C2_IngestResetsSelection ==
    (event = "Ingest" /\ outcome = "ok" /\ rendered_count <= PageLimit)
        => (NPages = rendered_count /\ selected_pages = <<>>)

\* C3: the images handed to the schema generator and to the extractor are in
\* ascending page order, whatever the order in which the pages were selected.
C3_ImagesAscending ==
    call.fn # "none"
        => \A j, k \in 1..Len(call.images) :
               j < k => call.images[j][2] < call.images[k][2]

\* C4: SelectAll(false) leaves selectedPages unchanged when it was not exactly
\* the set of all page indices, and clears it when it was.
C4_UnselectAllIsAllOrNothing ==
    [][(event' = "SelectAll" /\ ~select_all')
          => IF SetOf(selected_pages) = AllIndices
             THEN selected_pages' = <<>>
             ELSE selected_pages' = selected_pages]_vars

C4_Witness ==
    /\ event = "SelectAll"
    /\ ~select_all
    /\ selected_pages # <<>>
    /\ SetOf(selected_pages) # AllIndices

\* C5: SelectAll(true) ends with selectedPages holding exactly the indices
\* 0..len(pages)-1, and SelectAll(false) right after it ends with
\* selectedPages empty.
C5_SelectAllSelectsAll ==
    [][/\ (event' = "SelectAll" /\ select_all')
              => (SetOf(selected_pages') = 0..(Len(Get(pages')) - 1)
                  /\ Len(selected_pages') = Len(Get(pages')))
       /\ (event = "SelectAll" /\ select_all /\ event' = "SelectAll" /\ ~select_all')
              => selected_pages' = <<>>]_vars

C5_Witness ==
    /\ event = "SelectAll"
    /\ select_all
    /\ NPages = PageLimit
    /\ selected_pages = Range(PageLimit)

\* C6: an Ingest that fails in the page renderer leaves uploadedFile, pages,
\* selectedPages, schemaText and extractedData as they were.
C6_FailedIngestChangesNothing ==
    [][(event' = "Ingest" /\ outcome' = "RenderError")
          => UNCHANGED <<uploaded_file, pages, selected_pages, schema,
                         extracted_data>>]_vars

\* C7: the temporary file written by Ingest no longer exists when Ingest
\* ends, whether rendering succeeded or failed.
C7_TempFileReleased ==
    event = "Ingest" => Get(uploaded_file).name \notin tmp

\* C8: an ExtractData that fails with SchemaParseError or ExtractionError
\* leaves extractedData, pages, selectedPages and schemaText unchanged, and
\* the extractor is not called when the schema does not parse.
C8_FailedExtractChangesNothing ==
    [][(event' = "ExtractData"
            /\ outcome' \in {"SchemaParseError", "ExtractionError"})
          => /\ UNCHANGED <<extracted_data, pages, selected_pages, schema>>
             /\ (outcome' = "SchemaParseError" => call'.fn = "none")]_vars

C8_Witness ==
    /\ event = "ExtractData"
    /\ outcome \in {"SchemaParseError", "ExtractionError"}
    /\ extracted_data # None

\* C9: a successful Ingest clears extractedData, also after a successful
\* ExtractData; no download is offered while extractedData is absent, and
\* only a successful ExtractData makes it present again.
C9_IngestClearsExtractedData ==
    [][/\ (event' = "Ingest" /\ outcome' = "ok") => extracted_data' = None
       /\ download' => extracted_data' # None
       /\ (extracted_data = None /\ extracted_data' # None)
              => (event' = "ExtractData" /\ outcome' = "ok")]_vars

C9_Witness ==
    /\ event = "Ingest"
    /\ outcome = "ok"
    /\ had_data
    /\ extracted_data = None
    /\ ~download

\* C10: pages never holds more than 10 entries, and an Ingest of a document
\* that renders to n > 10 pages stores its first 10 pages in order and warns
\* with the count n.
C10_PagesTruncatedToLimit ==
    /\ pages # None => NPages <= PageLimit
    /\ (event = "Ingest" /\ outcome = "ok" /\ rendered_count > PageLimit)
           => /\ Get(pages) = SubSeq(Render(Get(uploaded_file), rendered_count),
                                     1, PageLimit)
              /\ warning = rendered_count

C10_Witness ==
    /\ event = "Ingest"
    /\ outcome = "ok"
    /\ rendered_count = PageLimit + 1
    /\ NPages = PageLimit
    /\ warning = PageLimit + 1

C12_ToggleTwiceRestores ==
    toggled.n = 2 => SetOf(selected_pages) = toggled.before

C14_CallsHaveImages ==
    call.fn # "none"
        => /\ pages # None
           /\ call.images # <<>>
           /\ SetOf(call.images) \subseteq SetOf(Get(pages))

C14_Witness ==
    /\ call.fn = "extract_data_with_schema"
    /\ Len(call.images) = 1
    /\ outcome = "ok"

\* C16: extractedData changes only in a successful ExtractData, which stores
\* the extractor's result, and in a successful Ingest, which clears it.
C16_ExtractedDataOwners ==
    [][/\ extracted_data' # extracted_data
           => \/ (event' = "ExtractData" /\ outcome' = "ok")
              \/ (event' = "Ingest" /\ outcome' = "ok")
       /\ (event' = "ExtractData" /\ outcome' = "ok")
           => extracted_data' = Some(call'.result)
       /\ (event' = "Ingest" /\ outcome' = "ok") => extracted_data' = None]_vars

C16_Witness ==
    /\ event \in {"ToggleSelection", "SelectAll", "GenerateSchema", "EditSchema"}
    /\ outcome = "ok"
    /\ had_data
    /\ extracted_data # None

\* C17: a run triggered by anything but an upload does not ingest: the
\* renderer is not called, nothing is written under tmp/, and pages,
\* uploaded_file and schemas stay; extracted_data is not cleared.
C17_NoIngestWithoutNewFile ==
    [][event' # "Ingest"
          => /\ rendered_count' = 0
             /\ outcome' # "RenderError"
             /\ UNCHANGED <<pages, uploaded_file, schemas, tmp>>
             /\ extracted_data # None => extracted_data' # None]_vars

C17_Witness ==
    /\ event \in {"ToggleSelection", "SelectAll", "GenerateSchema", "EditSchema",
                  "ExtractData"}
    /\ uploader # None
    /\ uploader = uploaded_file
    /\ pages # None
    /\ extracted_data # None

\* C18: selected_pages never holds the same index twice.
C18_NoDuplicateIndices ==
    Cardinality(SetOf(selected_pages)) = Len(selected_pages)

C18_Witness ==
    /\ event = "ToggleSelection"
    /\ Len(selected_pages) >= 2
    /\ ~select_all
====
